---- MODULE Spec2Model ----
(***************************************************************************)
(* A model of mmult.cpp: the loop-order matrix multiplication benchmark.   *)
(*                                                                         *)
(* Five specifications share the definitions below:                        *)
(*   SpecConfig    main, lines 79-145: options -> sizeList/orderList/CUSTOM *)
(*   Spec          main, lines 147-192: the sweep over sizes and orders     *)
(*   FairSpec      Spec with the fairness of a running sequential program   *)
(*   SpecKernel    multiply<L1,L2,L3>, one loop iteration per step          *)
(*   SpecChecksum  the checksum expression of runSingle on large matrices   *)
(*                                                                         *)
(* A loop order label is a sequence of one-character strings, so that its  *)
(* letters can be indexed as Char<Index> does: "ijk" is <<"i","j","k">>.   *)
(* A matrix is a function row -> column -> value over 0..N-1; data() is    *)
(* its row-major flattening.                                               *)
(***************************************************************************)
EXTENDS Integers, Sequences, FiniteSets, TLC

\* ------------------------------------------------------------------ bounds

\* Largest matrix size of the sweep and of the stepped kernel.
MaxN == 2
\* Longest size list and longest order list of a configuration.
MaxSizes == 2
MaxOrders == 2
\* Largest trial count (TRIALS ranges over 0..MaxTrials).
MaxTrials == 2
\* Largest seed of the stepped kernel and of the checksum.
MaxSeed == 7

\* ------------------------------------------------------- program constants

TRIALS_DEFAULT == 5
SEED_DEFAULT == 0
CHECKSUM_MAX == 10000
DIST_MIN == 0
DIST_MAX == 4

\* ---------------------------------------------------------------- helpers

Idx(N) == 0 .. (N - 1)

Min(a, b) == IF a < b THEN a ELSE b

\* boost::multi_array<ValueType, 2> {extents[N][N]}: value-initialised.
ZeroMatrix(N) == [r \in Idx(N) |-> [c \in Idx(N) |-> 0]]

\* multi_array::data(): the elements in row-major (C storage) order.
Data(M, N) == [p \in Idx(N * N) |-> M[p \div N][p % N]]

\* std::fill_n (C.data(), C.num_elements(), 0)
Fill(M, N, v) == [r \in Idx(N) |-> [c \in Idx(N) |-> v]]

\* ------------------------------------------------------ random generator

\* EngineType eng {SEED}; gen = bind (dist, eng): a deterministic stream of
\* values in DIST_MIN..DIST_MAX fixed by the seed.  The state of the bound
\* engine is the seed and the number of values drawn so far.  The mixing
\* function stands for mt19937_64, which is library code.
GenInit(seed) == [seed |-> seed, count |-> 0]

GenMix(seed, n) ==
    (n + 1) * (n + 2 + seed) + ((n \div 3) * 7) + ((n * n) \div 5) + (3 * seed)

GenValue(seed, n) ==
    DIST_MIN + ((GenMix(seed, n) % 11) % (DIST_MAX - DIST_MIN + 1))

\* std::generate_n (M.data(), M.num_elements(), gen): the matrix filled.
Generate(g, N) ==
    [r \in Idx(N) |-> [c \in Idx(N) |-> GenValue(g.seed, g.count + r * N + c)]]

\* ... and the generator after it.
GenAfter(g, N) == [g EXCEPT !.count = @ + N * N]

\* ------------------------------------------------------- axis binding

Letters == <<"i", "j", "k">>

\* template getIndex <T, Value, Other, Args...> (index): the position of
\* Value among the template arguments, 0 when it is not among them.
\* getIndexBroken is a faulty variant that forgets to advance the index.
RECURSIVE getIndexBroken(_, _, _)
getIndexBroken(Value, Args, index) ==
    IF Args = <<>> THEN 0
    ELSE IF Value = Head(Args) THEN index
         ELSE getIndexBroken(Value, Tail(Args), index)

RECURSIVE getIndex(_, _, _)
getIndex(Value, Args, index) ==
    IF Args = <<>> THEN 0
    ELSE IF Value = Head(Args) THEN index
         ELSE getIndex(Value, Tail(Args), index + 1)

\* The macro _(X) inside multiply <L1, L2, L3>:
\*   std::get <getIndex <char, X, L1, L2, L3> (0)> (std::tie (i, j, k))
\* ijk is the tuple <<i, j, k>> of the physical loop counters.
\* BindInverse is a faulty binding: it reads the label as a map from role
\* to counter instead of from counter to role.
BindInverse(X, L, ijk) == ijk[getIndex(L[getIndex(X, Letters, 0) + 1], Letters, 0) + 1]

Bind(X, L, ijk) == ijk[getIndex(X, L, 0) + 1]

\* The subscripts of the statement of line 266, by logical role:
\* row is _(i), col is _(j), red is _(k).
Subscripts(L, ijk) ==
    [row |-> Bind("i", L, ijk), col |-> Bind("j", L, ijk), red |-> Bind("k", L, ijk)]

\* The body of the loop nest, line 266:
\*   C[_(i)][_(j)] += A[_(i)][_(k)] * B[_(k)][_(j)]
\* BodyRaw is a faulty variant that indexes B with the raw counters k, j.
BodyRaw(L, mA, mB, mC, ijk) ==
    LET s == Subscripts(L, ijk)
    IN  [mC EXCEPT ![s.row][s.col] = @ + mA[s.row][s.red] * mB[ijk[3]][ijk[2]]]

Body(L, mA, mB, mC, ijk) ==
    LET s == Subscripts(L, ijk)
    IN  [mC EXCEPT ![s.row][s.col] = @ + mA[s.row][s.red] * mB[s.red][s.col]]

\* The three loops of multiply <L1, L2, L3>, lines 263-266, from the
\* counters i, j, k on: the condition of the innermost loop that is still
\* running is tested, its body is run and its counter advanced; a loop
\* that ends advances the counter of the loop around it.  n counts the
\* iterations run.  The result is [C, n].
RECURSIVE Loops(_, _, _, _, _, _, _, _, _)
Loops(L, mA, mB, mC, n, N, i, j, k) ==
    IF i < N
    THEN IF j < N
         THEN IF k < N
              THEN Loops(L, mA, mB, Body(L, mA, mB, mC, <<i, j, k>>), n + 1,
                         N, i, j, k + 1)
              ELSE Loops(L, mA, mB, mC, n, N, i, j + 1, 0)
         ELSE Loops(L, mA, mB, mC, n, N, i + 1, 0, 0)
    ELSE [C |-> mC, n |-> n]

\* multiply <L1, L2, L3> (A, B, C, N): the accumulator after the call, the
\* iterations run, and the elapsed time returned.  The clock of the model
\* ticks once per loop iteration.
multiply(L, mA, mB, mC, N) ==
    LET s == Loops(L, mA, mB, mC, 0, N, 0, 0, 0)
    IN  [C |-> s.C, n |-> s.n, elapsed |-> s.n]

\* ------------------------------------------------------------- std::map

\* The character codes of the letters that labels are written with.
Code(ch) ==
    CASE ch = "i" -> 105 [] ch = "j" -> 106 [] ch = "k" -> 107
      [] ch = "x" -> 120 [] ch = "y" -> 121 [] ch = "z" -> 122

\* std::less <std::string>: lexicographic comparison.
RECURSIVE StringLess(_, _)
StringLess(s, t) ==
    IF t = <<>> THEN FALSE
    ELSE IF s = <<>> THEN TRUE
    ELSE IF Code(Head(s)) # Code(Head(t)) THEN Code(Head(s)) < Code(Head(t))
    ELSE StringLess(Tail(s), Tail(t))

\* The keys of a std::map <std::string, ...> in iteration order.
RECURSIVE KeysInOrder(_)
KeysInOrder(keys) ==
    IF keys = {} THEN <<>>
    ELSE LET least == CHOOSE x \in keys : \A y \in keys \ {x} : StringLess(x, y)
         IN  <<least>> \o KeysInOrder(keys \ {least})

\* std::map::at: the mapped value, or std::out_of_range thrown.
\* AtOrFirst is a faulty variant that resolves an unknown key to the first
\* entry instead of throwing.
AtOrFirst(m, key) ==
    IF key \in DOMAIN m
    THEN [throws |-> FALSE, value |-> m[key]]
    ELSE [throws |-> FALSE, value |-> m[KeysInOrder(DOMAIN m)[1]]]

At(m, key) ==
    IF key \in DOMAIN m
    THEN [throws |-> FALSE, value |-> m[key]]
    ELSE [throws |-> TRUE, value |-> <<>>]

\* std::map::insert (value_type): nothing is stored when the key is present.
\* InsertOrAssign is a faulty variant that overwrites.
InsertOrAssign(m, key, value) ==
    [x \in DOMAIN m \cup {key} |-> IF x = key THEN value ELSE m[x]]

Insert(m, key, value) ==
    IF key \in DOMAIN m THEN m
    ELSE [x \in DOMAIN m \cup {key} |-> IF x = key THEN value ELSE m[x]]

\* ResultValueType {}: std::pair <float, ValueType> value-initialised.
\* A float is kept as the exact quotient <<numerator, denominator>>.
ResultDefault == [first |-> <<0, 1>>, second |-> 0]

\* std::map::operator[]: the map (with a default entry added for a new key)
\* and the mapped value.
Subscript(m, key) ==
    IF key \in DOMAIN m
    THEN [map |-> m, value |-> m[key]]
    ELSE [map |-> [x \in DOMAIN m \cup {key} |-> IF x = key THEN ResultDefault ELSE m[x]],
          value |-> ResultDefault]

\* The initializer list of FUNCTION_MAP, lines 115-120.
MapLabels ==
    << <<"i", "j", "k">>, <<"i", "k", "j">>, <<"j", "i", "k">>,
       <<"j", "k", "i">>, <<"k", "i", "j">>, <<"k", "j", "i">> >>

\* CREATE_MAPPING (X): { X, &multiply <Char<0>{X}, Char<1>{X}, Char<2>{X}> }.
\* A kernel is named by its template arguments <<L1, L2, L3>>.
CREATE_MAPPING(X) == [key |-> X, kernel |-> <<X[1], X[2], X[3]>>]

FUNCTION_MAP ==
    [X \in {MapLabels[n] : n \in 1 .. Len(MapLabels)} |-> CREATE_MAPPING(X).kernel]

\* ------------------------------------------------------------ runSingle

\* std::accumulate (data + first, data + last, init): init plus the
\* elements at first .. last - 1.  The code adds them left to right; the
\* additions are grouped in halves here, which gives the same integer sum
\* and keeps the evaluation shallow for ten thousand elements.
RECURSIVE accumulate(_, _, _, _)
accumulate(data, first, last, init) ==
    IF first >= last THEN init
    ELSE IF last = first + 1 THEN init + data[first]
    ELSE LET mid == first + ((last - first) \div 2)
         IN  accumulate(data, first, mid, init) + accumulate(data, mid, last, 0)

\* The second member of runSingle's result, lines 202-206.
\* ChecksumAll is a faulty variant that ignores CHECKSUM_MAX.
ChecksumAll(mC, N) == accumulate(Data(mC, N), 0, N * N, 0)

Checksum(mC, N) ==
    LET elements == N * N
    IN  accumulate(Data(mC, N), 0, Min(CHECKSUM_MAX, elements), 0)

\* The loop of runSingle, lines 198-201, from trial number count on.
\* s is [C, timeSum, iters]; iters lists the iterations of each call.
\* TrialsNoReset is a faulty variant without the std::fill_n.
RECURSIVE TrialsNoReset(_, _, _, _, _, _, _)
TrialsNoReset(mmult, mA, mB, s, N, count, trials) ==
    IF count < trials
    THEN LET r == multiply(mmult, mA, mB, s.C, N)
         IN  TrialsNoReset(mmult, mA, mB,
                    [C |-> r.C, timeSum |-> s.timeSum + r.elapsed,
                     iters |-> Append(s.iters, r.n)],
                    N, count + 1, trials)
    ELSE s

\* TrialLoopInclusive is a faulty variant whose condition is count <= TRIALS.
RECURSIVE TrialLoopInclusive(_, _, _, _, _, _, _)
TrialLoopInclusive(mmult, mA, mB, s, N, count, trials) ==
    IF count <= trials
    THEN LET r == multiply(mmult, mA, mB, Fill(s.C, N, 0), N)
         IN  TrialLoopInclusive(mmult, mA, mB,
                    [C |-> r.C, timeSum |-> s.timeSum + r.elapsed,
                     iters |-> Append(s.iters, r.n)],
                    N, count + 1, trials)
    ELSE s

RECURSIVE TrialLoop(_, _, _, _, _, _, _)
TrialLoop(mmult, mA, mB, s, N, count, trials) ==
    IF count < trials
    THEN LET r == multiply(mmult, mA, mB, Fill(s.C, N, 0), N)
         IN  TrialLoop(mmult, mA, mB,
                    [C |-> r.C, timeSum |-> s.timeSum + r.elapsed,
                     iters |-> Append(s.iters, r.n)],
                    N, count + 1, trials)
    ELSE s

\* runSingle (mmult, A, B, C, N) with TRIALS = trials: the pair returned
\* (1.0 * timeSum / TRIALS, checksum), the accumulator it leaves, and the
\* iterations of each kernel call.
runSingle(mmult, mA, mB, mC, N, trials) ==
    LET s == TrialLoop(mmult, mA, mB, [C |-> mC, timeSum |-> 0, iters |-> <<>>],
                       N, 0, trials)
    IN  [value |-> [first |-> <<s.timeSum, trials>>, second |-> Checksum(s.C, N)],
         C |-> s.C, iters |-> s.iters]

\* ---------------------------------------------------------------- output

\* conditionalPrint (os, flag): os, or the stream opened on /dev/null.
\* conditionalPrintAlways is a faulty variant that ignores the flag.
conditionalPrintAlways(os, flag) == os

conditionalPrint(os, flag) == IF flag THEN os ELSE "EMPTY_STREAM"

\* What a stream holds after events are written to the stream named os.
Written(stream, name, os, events) == IF os = name THEN stream \o events ELSE stream

\* print (title, orderList, sizeList, dataAccessor): the table, as its
\* title, its header row and one row per size; a row is the size and one
\* cell per order.  Widths and precision are not modelled.  dataAccessor
\* is the callable, as a function of the key.
print(title, orders, sizes, dataAccessor) ==
    <<"TABLE", title, orders,
      [n \in 1 .. Len(sizes) |->
          <<sizes[n], [o \in 1 .. Len(orders) |-> dataAccessor[<<sizes[n], orders[o]>>]]>>]>>

\* ----------------------------------------------------------------- state

VARIABLES
    argv,        \* the command line: [help, all, iterations, seed, sizes, traversals]
    pc,          \* where main is: "start", "parsed", "sizes", "orders", "exited"
    TRIALS,      \* the global TRIALS
    SEED,        \* the global SEED
    CUSTOM,      \* main's CUSTOM
    sizeList,    \* main's sizeList
    orderList,   \* main's orderList
    gen,         \* the state of main's gen
    si,          \* the position of the outer loop in sizeList
    oi,          \* the position of the inner loop in orderList
    A, B, C,     \* the matrices of the size being evaluated
    results,     \* main's results
    out,         \* what was written to std::cout
    err,         \* what was written to std::cerr
    exitStatus,  \* "running", "EXIT_SUCCESS" or "EXIT_FAILURE"
    evals,       \* history: each runSingle call, [key, value, iters]
    kern,        \* the stepped kernel: [pc, L, N, i, j, k, visited]
    chk          \* the checksum computation: [pc, N, sum]

vars == <<argv, pc, TRIALS, SEED, CUSTOM, sizeList, orderList, gen, si, oi,
          A, B, C, results, out, err, exitStatus, evals, kern, chk>>

configVars == <<TRIALS, SEED, CUSTOM, sizeList, orderList>>
otherVars == <<kern, chk>>

\* ------------------------------------------------------------ input sets

\* Labels that are no key of FUNCTION_MAP: foreign letters, a repeated
\* letter, a label that is too short.
InvalidLabels == { <<"x", "y", "z">>, <<"i", "i", "k">>, <<"i", "j">> }

ValidLabels == DOMAIN FUNCTION_MAP

\* The labels the order lists of a sweep are drawn from: the identity, a
\* transposition and a 3-cycle, and one label that is no key.
SweepLabels ==
    { <<"i", "j", "k">>, <<"k", "j", "i">>, <<"j", "k", "i">>, <<"x", "y", "z">> }

SeqsUpTo(S, n) == UNION { [1 .. m -> S] : m \in 1 .. n }

SizeLists == SeqsUpTo(0 .. MaxN, MaxSizes)
OrderLists == SeqsUpTo(SweepLabels, MaxOrders)

\* The prompts of the interactive input, lines 137-142.
Prompts == << <<"-- BEGIN INPUT --">>, <<"N     ==> ">>, <<"Order ==> ">>,
              <<"-- END INPUT --">> >>

NoMatrix == ZeroMatrix(0)
KernIdle == [pc |-> "idle", L |-> <<>>, N |-> 0, i |-> 0, j |-> 0, k |-> 0,
             visited |-> <<>>]
ChkIdle == [pc |-> "idle", N |-> 0, sum |-> 0]
NoArgv == [help |-> FALSE, all |-> FALSE, iterations |-> <<>>, seed |-> <<>>,
           sizes |-> <<>>, traversals |-> <<>>]

\* ------------------------------------------------------------- the sweep

\* The state at line 147, after the configuration: in the interactive mode
\* (not CUSTOM) both lists hold the one value read.
Init ==
    /\ argv = NoArgv
    /\ pc = "sizes"
    /\ TRIALS \in 0 .. MaxTrials
    /\ SEED = SEED_DEFAULT
    /\ CUSTOM \in BOOLEAN
    /\ sizeList \in SizeLists
    /\ orderList \in OrderLists
    /\ (~CUSTOM => Len(sizeList) = 1 /\ Len(orderList) = 1)
    /\ gen = GenInit(SEED)
    /\ si = 1
    /\ oi = 1
    /\ A = NoMatrix /\ B = NoMatrix /\ C = NoMatrix
    /\ results = <<>>
    /\ out = IF CUSTOM THEN <<>> ELSE Prompts
    /\ err = <<>>
    /\ exitStatus = "running"
    /\ evals = <<>>
    /\ kern = KernIdle
    /\ chk = ChkIdle

\* The conditions of the two for loops: the outer loop has a next size or
\* has ended, the inner loop has a next order.
CanNextSize == pc = "sizes" /\ si <= Len(sizeList)
CanDispatch == pc = "orders" /\ oi <= Len(orderList)
CanReport == pc = "sizes" /\ si > Len(sizeList)

\* The head of the outer loop, lines 154-160: the matrices of the next size
\* are allocated and A, B are drawn from gen.
NextSize ==
    /\ CanNextSize
    /\ LET N == sizeList[si]
       IN  /\ A' = Generate(gen, N)
           /\ B' = Generate(GenAfter(gen, N), N)
           /\ C' = ZeroMatrix(N)
           /\ gen' = GenAfter(GenAfter(gen, N), N)
    /\ oi' = 1
    /\ IF Len(orderList) = 0
       THEN pc' = "sizes" /\ si' = si + 1
       ELSE pc' = "orders" /\ si' = si
    /\ UNCHANGED <<argv, configVars, results, out, err, exitStatus, evals, otherVars>>

\* Where the inner loop goes after the order at oi.
Advance ==
    IF oi < Len(orderList)
    THEN oi' = oi + 1 /\ si' = si /\ pc' = "orders"
    ELSE oi' = 1 /\ si' = si + 1 /\ pc' = "sizes"

\* One pass of the inner loop, lines 162-177.
Dispatch ==
    /\ CanDispatch
    /\ LET N == sizeList[si]
           order == orderList[oi]
           key == <<N, order>>
           progress == << <<"Trials for", N, order>> >>
           err1 == Written(err, "cerr", conditionalPrint("cerr", CUSTOM), progress)
           f == At(FUNCTION_MAP, order)
       IN  \/ /\ ~f.throws
              /\ \E r \in {runSingle(f.value, A, B, C, N, TRIALS)} : LET
                     res1 == Insert(results, key, r.value)
                     t == Subscript(res1, key)
                     s == Subscript(t.map, key)
                     output == << <<"OUTPUT", t.value.first, s.value.second>> >>
                 IN  /\ C' = r.C
                     /\ results' = s.map
                     /\ evals' = Append(evals, [key |-> key, value |-> r.value,
                                                iters |-> r.iters])
                     /\ out' = Written(out, "cout", conditionalPrint("cout", ~CUSTOM),
                                       output)
              /\ err' = err1
              /\ Advance
              /\ UNCHANGED exitStatus
           \/ /\ f.throws
              /\ err' = err1 \o << <<"invalid traversal provided", order>> >>
              /\ exitStatus' = "EXIT_FAILURE"
              /\ pc' = "exited"
              /\ UNCHANGED <<C, results, evals, out, si, oi>>
    /\ UNCHANGED <<argv, configVars, gen, A, B, otherVars>>

\* The accessors of the two tables, lines 184-190.
TimeOf == [key \in DOMAIN results |-> results[key].first]
SumOf == [key \in DOMAIN results |-> results[key].second]

\* After the loops, lines 181-192.
Report ==
    /\ CanReport
    /\ out' = Written(out, "cout", conditionalPrint("cout", CUSTOM),
                      << <<"Done!">>,
                         print("TIMES (MICROSECONDS):", orderList, sizeList, TimeOf),
                         print("SUMS:", orderList, sizeList, SumOf) >>)
    /\ exitStatus' = "EXIT_SUCCESS"
    /\ pc' = "exited"
    /\ UNCHANGED <<argv, configVars, gen, si, oi, A, B, C, results, err, evals, otherVars>>

Next == NextSize \/ Dispatch \/ Report

Spec == Init /\ [][Next]_vars

\* A sequential program that can take a step takes it.
FairSpec == Spec /\ WF_vars(Next)

\* ------------------------------------------------------ the configuration

\* sizeList = { 100, 200, 300, 400, 500 }, line 126.
DefaultSizes == <<100, 200, 300, 400, 500>>

\* The command lines explored: every option given or not.
Options(S) == {<<>>} \cup {<<x>> : x \in S}

ArgvSet ==
    [help : BOOLEAN, all : BOOLEAN,
     iterations : Options(0 .. MaxTrials),
     seed : Options({MaxSeed}),
     sizes : {<<>>} \cup SizeLists,
     traversals : {<<>>} \cup OrderLists]

\* The state when main is entered: the globals as initialised at lines 25-26.
InitConfig ==
    /\ argv \in ArgvSet
    /\ pc = "start"
    /\ TRIALS = TRIALS_DEFAULT
    /\ SEED = SEED_DEFAULT
    /\ CUSTOM = FALSE
    /\ sizeList = <<>>
    /\ orderList = <<>>
    /\ gen = GenInit(SEED_DEFAULT)
    /\ si = 1
    /\ oi = 1
    /\ A = NoMatrix /\ B = NoMatrix /\ C = NoMatrix
    /\ results = <<>>
    /\ out = <<>>
    /\ err = <<>>
    /\ exitStatus = "running"
    /\ evals = <<>>
    /\ kern = KernIdle
    /\ chk = ChkIdle

\* Lines 98-109: the options are stored (an option that is not given leaves
\* its default), help is answered, RUN_ALL and CUSTOM are computed.
ParseOptions ==
    /\ pc = "start"
    /\ TRIALS' = IF argv.iterations = <<>> THEN TRIALS ELSE argv.iterations[1]
    /\ SEED' = IF argv.seed = <<>> THEN SEED ELSE argv.seed[1]
    /\ sizeList' = argv.sizes
    /\ orderList' = argv.traversals
    /\ \/ /\ argv.help
          /\ out' = Append(out, <<"Permitted options">>)
          /\ exitStatus' = "EXIT_SUCCESS"
          /\ pc' = "exited"
          /\ UNCHANGED CUSTOM
       \/ /\ ~argv.help
          /\ CUSTOM' = ((Len(argv.sizes) > 0 /\ Len(argv.traversals) > 0) \/ argv.all)
          /\ pc' = "parsed"
          /\ UNCHANGED <<out, exitStatus>>
    /\ UNCHANGED <<argv, gen, si, oi, A, B, C, results, err, evals, otherVars>>

\* The labels a user may type at the prompt.
TypedLabels == SweepLabels \cup InvalidLabels

\* Lines 125-152: the default data set, or the pair read from the user, or
\* the lists as given; then the generator is seeded.
Configure ==
    /\ pc = "parsed"
    /\ \/ /\ argv.all
          /\ sizeList' = DefaultSizes
          /\ orderList' = orderList \o KeysInOrder(DOMAIN FUNCTION_MAP)
          /\ UNCHANGED out
       \/ /\ ~argv.all /\ ~CUSTOM
          /\ \E N \in 0 .. MaxN, order \in TypedLabels :
                /\ sizeList' = <<N>>
                /\ orderList' = <<order>>
          /\ out' = out \o Prompts
       \/ /\ ~argv.all /\ CUSTOM
          /\ UNCHANGED <<sizeList, orderList, out>>
    /\ gen' = GenInit(SEED)
    /\ pc' = "sizes"
    /\ UNCHANGED <<argv, TRIALS, SEED, CUSTOM, si, oi, A, B, C, results, err,
                   exitStatus, evals, otherVars>>

NextConfig == ParseOptions \/ Configure

SpecConfig == InitConfig /\ [][NextConfig]_vars

\* ------------------------------------------------------ the stepped kernel

\* multiply <L1, L2, L3> (A, B, C, N) is about to be called on a zeroed C.
InitKernel ==
    /\ argv = NoArgv
    /\ pc = "kernel"
    /\ TRIALS = 1
    /\ SEED \in 0 .. MaxSeed
    /\ CUSTOM = TRUE
    /\ sizeList = <<>>
    /\ orderList = <<>>
    /\ \E N \in 0 .. MaxN, label \in DOMAIN FUNCTION_MAP :
          /\ kern = [pc |-> "call", L |-> FUNCTION_MAP[label], N |-> N,
                     i |-> 0, j |-> 0, k |-> 0, visited |-> <<>>]
          /\ A = Generate(GenInit(SEED), N)
          /\ B = Generate(GenAfter(GenInit(SEED), N), N)
          /\ C = ZeroMatrix(N)
          /\ gen = GenAfter(GenAfter(GenInit(SEED), N), N)
    /\ si = 1
    /\ oi = 1
    /\ results = <<>>
    /\ out = <<>>
    /\ err = <<>>
    /\ exitStatus = "running"
    /\ evals = <<>>
    /\ chk = ChkIdle

kernelFrame == <<argv, pc, configVars, gen, si, oi, A, B, results, out, err,
                 exitStatus, evals, chk>>

\* Lines 262-265: the three loops are entered; with N = 0 the outer loop's
\* condition fails at once.
KernelEnter ==
    /\ kern.pc = "call"
    /\ kern' = [kern EXCEPT !.pc = IF 0 < kern.N THEN "loop" ELSE "returned"]
    /\ UNCHANGED <<C, kernelFrame>>

\* Line 266 for the current i, j, k, then ++k and the loop conditions,
\* innermost first.
KernelBody ==
    /\ kern.pc = "loop"
    /\ LET ijk == <<kern.i, kern.j, kern.k>>
           s == Subscripts(kern.L, ijk)
           visit == [row |-> s.row, col |-> s.col, red |-> s.red, ijk |-> ijk]
           seen == Append(kern.visited, visit)
       IN  /\ C' = Body(kern.L, A, B, C, ijk)
           /\ kern' =
                IF kern.k + 1 < kern.N
                THEN [kern EXCEPT !.k = kern.k + 1, !.visited = seen]
                ELSE IF kern.j + 1 < kern.N
                THEN [kern EXCEPT !.j = kern.j + 1, !.k = 0, !.visited = seen]
                ELSE IF kern.i + 1 < kern.N
                THEN [kern EXCEPT !.i = kern.i + 1, !.j = 0, !.k = 0, !.visited = seen]
                ELSE [kern EXCEPT !.pc = "returned", !.visited = seen]
    /\ UNCHANGED kernelFrame

NextKernel == KernelEnter \/ KernelBody

SpecKernel == InitKernel /\ [][NextKernel]_vars

\* ------------------------------------------------------------ the checksum

\* The least N with CHECKSUM_MAX <= N * N.
CapSide ==
    CHOOSE n \in 1 .. CHECKSUM_MAX :
        n * n >= CHECKSUM_MAX /\ (n - 1) * (n - 1) < CHECKSUM_MAX

\* Sizes below, at and above the cap.
ChecksumSizes == (0 .. MaxN) \cup ((CapSide - 1) .. (CapSide + 2))

\* runSingle has run its trials: C holds what the last one left.  Any N x N
\* contents are a possible accumulator; they are drawn from the generator.
InitChecksum ==
    /\ argv = NoArgv
    /\ pc = "runSingle"
    /\ TRIALS = 1
    /\ SEED \in 0 .. MaxSeed
    /\ CUSTOM = TRUE
    /\ sizeList = <<>>
    /\ orderList = <<>>
    /\ \E N \in ChecksumSizes :
          /\ chk = [pc |-> "sum", N |-> N, sum |-> 0]
          /\ C = Generate(GenInit(SEED), N)
          /\ gen = GenAfter(GenInit(SEED), N)
    /\ A = NoMatrix /\ B = NoMatrix
    /\ si = 1
    /\ oi = 1
    /\ results = <<>>
    /\ out = <<>>
    /\ err = <<>>
    /\ exitStatus = "running"
    /\ evals = <<>>
    /\ kern = KernIdle

\* Lines 202-206: the checksum of the accumulator is computed.
ReturnChecksum ==
    /\ chk.pc = "sum"
    /\ chk' = [chk EXCEPT !.pc = "done", !.sum = Checksum(C, chk.N)]
    /\ UNCHANGED <<argv, pc, configVars, gen, si, oi, A, B, C, results, out, err,
                   exitStatus, evals, kern>>

NextChecksum == ReturnChecksum

SpecChecksum == InitChecksum /\ [][NextChecksum]_vars

\* =============================================================== properties

\* The standard matrix product, element by element.
RECURSIVE DotUpTo(_, _, _, _, _)
DotUpTo(mA, mB, r, c, n) ==
    IF n = 0 THEN 0
    ELSE DotUpTo(mA, mB, r, c, n - 1) + mA[r][n - 1] * mB[n - 1][c]

MatProduct(mA, mB, N) ==
    [r \in Idx(N) |-> [c \in Idx(N) |-> DotUpTo(mA, mB, r, c, N)]]

\* The scenario N = 2, A = [[1,2],[3,4]], B = [[5,6],[7,8]].
ScenarioA == [r \in Idx(2) |-> [c \in Idx(2) |-> 2 * r + c + 1]]
ScenarioB == [r \in Idx(2) |-> [c \in Idx(2) |-> 2 * r + c + 5]]
ScenarioC == [r \in Idx(2) |-> [c \in Idx(2) |->
                 IF r = 0 THEN (IF c = 0 THEN 19 ELSE 22)
                          ELSE (IF c = 0 THEN 43 ELSE 50)]]

\* The stepped kernel and the loops of multiply compute the same accumulator.
KernelStepsAgree ==
    kern.pc = "returned" =>
        /\ C = multiply(kern.L, A, B, ZeroMatrix(kern.N), kern.N).C
        /\ Len(kern.visited) = multiply(kern.L, A, B, ZeroMatrix(kern.N), kern.N).n

\* C1: for each of the six labels, every N and all inputs, multiply called
\* on an all-zero C leaves C equal to the standard product A x B; in the
\* scenario above every label gives [[19,22],[43,50]].
C1_ProductForEveryOrder ==
    /\ kern.pc = "returned" => C = MatProduct(A, B, kern.N)
    /\ \A label \in DOMAIN FUNCTION_MAP :
          multiply(FUNCTION_MAP[label], ScenarioA, ScenarioB, ZeroMatrix(2), 2).C
            = ScenarioC

\* A returned kernel of size 2 whose inputs do not commute, so that a wrong
\* binding of the roles shows.
C1_Witness ==
    /\ kern.pc = "returned"
    /\ kern.N = 2
    /\ kern.L = <<"j", "k", "i">>
    /\ C = MatProduct(A, B, 2)
    /\ MatProduct(A, B, 2) # MatProduct(B, A, 2)

\* The counter value that plays the role a letter names.
RoleValue(v, letter) ==
    CASE letter = "i" -> v.row
      [] letter = "j" -> v.col
      [] letter = "k" -> v.red

VisitKey(v, L) == <<RoleValue(v, L[1]), RoleValue(v, L[2]), RoleValue(v, L[3])>>

TripleLess(s, t) ==
    \/ s[1] < t[1]
    \/ s[1] = t[1] /\ s[2] < t[2]
    \/ s[1] = t[1] /\ s[2] = t[2] /\ s[3] < t[3]

\* C9: the outer, middle and inner counters play the roles named by L[0],
\* L[1], L[2]; the (row, col, red) triples are visited in lexicographic
\* order with the role L[0] slowest, and all N^3 of them exactly once.
C9_BindingByPosition ==
    LET L == kern.L
        seen == kern.visited
    IN  kern.pc # "idle" =>
          /\ {L[1], L[2], L[3]} = {"i", "j", "k"}
          /\ \A n \in 1 .. Len(seen) : \A p \in 1 .. 3 :
                seen[n].ijk[p] = RoleValue(seen[n], L[p])
          /\ \A n \in 1 .. (Len(seen) - 1) :
                TripleLess(VisitKey(seen[n], L), VisitKey(seen[n + 1], L))
          /\ kern.pc = "returned" =>
                /\ Len(seen) = kern.N * kern.N * kern.N
                /\ {<<seen[n].row, seen[n].col, seen[n].red>> : n \in 1 .. Len(seen)}
                     = Idx(kern.N) \X Idx(kern.N) \X Idx(kern.N)

C9_Witness ==
    /\ kern.pc = "returned"
    /\ kern.N = 2
    /\ kern.L = <<"k", "i", "j">>
    /\ Len(kern.visited) = 8
    /\ kern.visited[2] = [row |-> 0, col |-> 1, red |-> 0, ijk |-> <<0, 0, 1>>]

\* The sum of the elements lo .. hi - 1 of one row.
RECURSIVE RowRangeSum(_, _, _)
RowRangeSum(row, lo, hi) ==
    IF hi <= lo THEN 0
    ELSE IF hi = lo + 1 THEN row[lo]
    ELSE LET mid == (lo + hi) \div 2
         IN  RowRangeSum(row, lo, mid) + RowRangeSum(row, mid, hi)

\* What the rows lo .. hi - 1 of an N x N matrix add to the sum of its
\* first limit elements, counted row after row.
RECURSIVE RowsSum(_, _, _, _, _)
RowsSum(mC, N, limit, lo, hi) ==
    IF hi <= lo THEN 0
    ELSE IF hi = lo + 1
    THEN RowRangeSum(mC[lo], 0, IF limit <= lo * N THEN 0 ELSE Min(N, limit - lo * N))
    ELSE LET mid == (lo + hi) \div 2
         IN  RowsSum(mC, N, limit, lo, mid) + RowsSum(mC, N, limit, mid, hi)

\* The sum of the first limit elements of an N x N matrix, row after row.
RowMajorSum(mC, N, limit) == RowsSum(mC, N, limit, 0, N)

\* C5: the checksum is the sum of the first min(10000, N*N) elements of the
\* accumulator in row-major order; elements past the first 10000 never
\* contribute.
C5_ChecksumOfPrefix ==
    chk.pc = "done" =>
        chk.sum = RowMajorSum(C, chk.N, Min(10000, chk.N * chk.N))

\* A matrix with more than 10000 elements whose tail is not all zero: the
\* checksum differs from the sum of the whole matrix.
C5_Witness ==
    /\ chk.pc = "done"
    /\ chk.N * chk.N > 10000
    /\ chk.sum # RowMajorSum(C, chk.N, chk.N * chk.N)
    /\ chk.sum > 0

\* A label is one of the six permutations of i, j, k.
IsPermutation(label) ==
    Len(label) = 3 /\ {label[n] : n \in 1 .. Len(label)} = {"i", "j", "k"}

\* The runSingle calls made for a key, in the order they were made.
EvalsOf(key) == SelectSeq(evals, LAMBDA e : e.key = key)
FirstEval(key) == EvalsOf(key)[1].value
LastEval(key) == EvalsOf(key)[Len(EvalsOf(key))].value

\* The events of a stream that carry a tag.
Tagged(stream, tag) == SelectSeq(stream, LAMBDA e : e[1] = tag)

\* C2: dispatching a pair whose label is none of the six permutations ends
\* the run with a failure status, invokes no kernel for the pair and leaves
\* no entry for the pair in the result store.
C2_InvalidOrderAborts ==
    [][(pc = "orders" /\ ~IsPermutation(orderList[oi])) =>
          /\ exitStatus' = "EXIT_FAILURE"
          /\ pc' = "exited"
          /\ evals' = evals
          /\ results' = results
          /\ <<sizeList[si], orderList[oi]>> \notin DOMAIN results'
          /\ err'[Len(err')] = <<"invalid traversal provided", orderList[oi]>>]_vars

\* The run was aborted at an invalid label after an earlier pair was run.
C2_Witness ==
    /\ exitStatus = "EXIT_FAILURE"
    /\ Len(evals) > 0
    /\ ~IsPermutation(orderList[oi])
    /\ \A e \in {evals[n] : n \in 1 .. Len(evals)} : IsPermutation(e.key[2])

RECURSIVE DrawnBefore(_)
DrawnBefore(n) ==
    IF n <= 1 THEN 0 ELSE DrawnBefore(n - 1) + 2 * sizeList[n - 1] * sizeList[n - 1]

\* C6: the checksums stored for one size are the same for every order; the
\* inputs A and B of a size are those drawn once for it and are not changed
\* by any trial.
C6_ChecksumSameForOrders ==
    /\ \A k1, k2 \in DOMAIN results :
          k1[1] = k2[1] => results[k1].second = results[k2].second
    /\ pc = "orders" =>
          LET N == sizeList[si]
              g == [seed |-> SEED, count |-> DrawnBefore(si)]
          IN  /\ A = Generate(g, N)
              /\ B = Generate(GenAfter(g, N), N)

\* Two different orders of size 2 are stored with the same non-zero sum.
C6_Witness ==
    \E k1, k2 \in DOMAIN results :
        /\ k1[1] = 2 /\ k2[1] = 2
        /\ k1[2] # k2[2]
        /\ results[k1].second = results[k2].second
        /\ results[k1].second > 0

\* C7: in the interactive mode each pair's result is written to standard
\* output as soon as it is computed and no table is written; in the batch
\* mode no result is written to standard output, the progress goes to the
\* diagnostic stream, and the two tables (times, then sums) are written to
\* standard output once, after every pair was computed.
C7_OutputByMode ==
    /\ ~CUSTOM =>
          /\ Tagged(out, "TABLE") = <<>>
          /\ Tagged(out, "Done!") = <<>>
          /\ Tagged(err, "Trials for") = <<>>
          /\ Tagged(out, "OUTPUT") =
                [n \in 1 .. Len(evals) |->
                    <<"OUTPUT", evals[n].value.first, evals[n].value.second>>]
          /\ Len(evals) > 0 => out[Len(out)][1] = "OUTPUT"
    /\ CUSTOM =>
          /\ Tagged(out, "OUTPUT") = <<>>
          /\ Len(Tagged(err, "Trials for")) =
                Len(evals) + (IF exitStatus = "EXIT_FAILURE" THEN 1 ELSE 0)
          /\ \A n \in 1 .. Len(evals) :
                Tagged(err, "Trials for")[n] =
                    <<"Trials for", evals[n].key[1], evals[n].key[2]>>
          /\ IF exitStatus = "EXIT_SUCCESS"
             THEN /\ Len(out) = 3
                  /\ out[1] = <<"Done!">>
                  /\ out[2][1] = "TABLE" /\ out[2][2] = "TIMES (MICROSECONDS):"
                  /\ out[3][1] = "TABLE" /\ out[3][2] = "SUMS:"
                  /\ Len(evals) = Len(sizeList) * Len(orderList)
                  /\ \A n \in 1 .. Len(sizeList) : \A o \in 1 .. Len(orderList) :
                        <<sizeList[n], orderList[o]>> \in DOMAIN results
             ELSE out = <<>>

\* A batch sweep of several pairs has ended and printed its tables.
C7_Witness ==
    /\ CUSTOM
    /\ exitStatus = "EXIT_SUCCESS"
    /\ Len(evals) = 4
    /\ Len(err) = 4
    /\ Len(out) = 3

\* An interactive run has printed the result of its pair.
C7_WitnessInteractive ==
    /\ ~CUSTOM
    /\ exitStatus = "EXIT_SUCCESS"
    /\ Len(evals) = 1
    /\ out = Prompts \o << <<"OUTPUT", evals[1].value.first, evals[1].value.second>> >>

\* C8: whatever C held before, after runSingle returns with TRIALS >= 1 the
\* accumulator is the product A x B of one multiplication.
C8_AccumulatorReset ==
    [][(pc = "orders" /\ TRIALS >= 1 /\ evals' # evals) =>
          C' = MatProduct(A, B, sizeList[si])]_vars

\* The second order of a size was run with two trials on an accumulator
\* that held the non-zero product left by the first order.
C8_Witness ==
    /\ TRIALS = 2
    /\ Len(evals) >= 2
    /\ evals[Len(evals)].key[1] = 2
    /\ evals[Len(evals) - 1].key[1] = 2
    /\ pc = "sizes"
    /\ si = 2
    /\ C = MatProduct(A, B, 2)
    /\ C # ZeroMatrix(2)

\* The pairs of the configuration in the order of the two nested loops.
ExpectedKeys ==
    [n \in 1 .. (Len(sizeList) * Len(orderList)) |->
        <<sizeList[((n - 1) \div Len(orderList)) + 1],
          orderList[((n - 1) % Len(orderList)) + 1]>>]

\* A call for the pair at position n of the nested loops: TRIALS kernel
\* invocations of N^3 iterations each, none and a zero sum for N = 0.
CallAsExpected(n) ==
    LET e == evals[n]
        N == e.key[1]
    IN  /\ e.key = ExpectedKeys[n]
        /\ Len(e.iters) = TRIALS
        /\ \A t \in 1 .. Len(e.iters) : e.iters[t] = N * N * N
        /\ N = 0 => e.value.second = 0

\* The run has ended with success after the calls for every pair.
Completed ==
    /\ exitStatus = "EXIT_SUCCESS"
    /\ Len(evals) = Len(ExpectedKeys)
    /\ \A n \in 1 .. Len(evals) : CallAsExpected(n)

AllValid == \A o \in 1 .. Len(orderList) : IsPermutation(orderList[o])

\* The steps main still has to take: one per size, one per pair, the report.
Remaining ==
    CASE pc = "exited" -> 0
      [] pc = "sizes" ->
            1 + (Len(sizeList) - si + 1) * (1 + Len(orderList))
      [] pc = "orders" ->
            1 + (Len(sizeList) - si) * (1 + Len(orderList)) + (Len(orderList) - oi + 1)

\* The pairs dispatched so far.
Dispatched ==
    CASE pc = "exited" -> Len(sizeList) * Len(orderList)
      [] pc = "sizes" -> (si - 1) * Len(orderList)
      [] pc = "orders" -> (si - 1) * Len(orderList) + (oi - 1)

\* A run on valid labels is on its way to completion: it has not failed,
\* its calls so far are those of the pairs dispatched so far, it can take
\* a step until nothing remains, and then it has completed.
OnCourse ==
    /\ exitStatus # "EXIT_FAILURE"
    /\ Remaining >= 0
    /\ Len(evals) = Dispatched
    /\ \A n \in 1 .. Len(evals) : CallAsExpected(n)
    /\ Remaining > 0 => (exitStatus = "running" /\ (CanNextSize \/ CanDispatch \/ CanReport))
    /\ Remaining = 0 => Completed

\* C10: when every label of the order list is one of the six permutations
\* the run terminates with success and stays there, having invoked the
\* kernel TRIALS times for each pair, sizes in the outer loop and orders in
\* the inner one; a call of size 0 runs no iteration and gives checksum 0.
\* On the way every step takes one off the steps that remain, and the
\* calls made are those of the pairs dispatched so far.
C10_ValidRunCompletes ==
    /\ AllValid => <>[]Completed
    /\ [](AllValid => OnCourse)
    /\ [][AllValid => Remaining' = Remaining - 1]_vars

C10_Witness ==
    /\ Completed
    /\ TRIALS = 2
    /\ Len(sizeList) = 2 /\ Len(orderList) = 2
    /\ sizeList = <<2, 0>>
    /\ orderList[1] # orderList[2]

\* C4: with the all flag the sweep is the default one whatever else is
\* given: sizes 100, 200, 300, 400, 500 and the six permutations once each.
C4_AllRunsDefaultSweep ==
    (pc = "sizes" /\ argv.all) =>
        /\ sizeList = DefaultSizes
        /\ Len(orderList) = 6
        /\ {orderList[n] : n \in 1 .. Len(orderList)} = {l \in [1 .. 3 -> {"i", "j", "k"}] : IsPermutation(l)}

\* Without traversals on the command line the all flag gives the default sweep.
AllAloneRunsDefaultSweep ==
    (pc = "sizes" /\ argv.all /\ argv.traversals = <<>>) =>
        /\ sizeList = DefaultSizes
        /\ orderList = MapLabels

\* What the configuration hands to the sweep: lists that are not empty, one
\* pair in the interactive mode.
ConfiguredShape ==
    pc = "sizes" =>
        /\ Len(sizeList) >= 1 /\ Len(orderList) >= 1
        /\ ~CUSTOM => Len(sizeList) = 1 /\ Len(orderList) = 1
        /\ out = IF CUSTOM THEN <<>> ELSE Prompts
        /\ gen = GenInit(SEED)

====
